---- MODULE Spec2Model ----
(***************************************************************************)
(* A model of django-simple-api: the `fields` query handling of            *)
(* ModelSerializer, the polymorphic serializer dispatch, the CSV renderer  *)
(* patch, the filter backend and the recursive filter-set generator.       *)
(*                                                                         *)
(* Python strings are tuples of one-character strings, so that split,      *)
(* join, replace and the substring test are computed character by          *)
(* character as str.split, str.join, str.replace and `in` compute them.    *)
(***************************************************************************)
EXTENDS Integers, Sequences, FiniteSets, TLC

VARIABLES
    pc,              \* "call": the inputs are given; "return": the operation ran
    default_fields,  \* serializers.py: what super().get_fields() returned
    all_fields,      \* serializers.py: the field dictionary, mutated in place and returned
    context,         \* serializers.py: self.context
    subtype_serializers, \* serializers.py: Meta.subtype_serializers, the model of each
    obj,             \* serializers.py: the class of the object to represent
    representation,  \* serializers.py: whose representation to_representation returned
    base_out,        \* renderers.py: the text the base renderer produced
    out,             \* renderers.py: the text PandasCSVRenderer.render returned
    queryset,        \* filters.py: the view's queryset, a list of rows
    data,            \* filters.py: the request's query parameters (self.data)
    filter_class,    \* filters.py: the view's filter class: its filters and its kwargs
    qs_returned,     \* filters.py: the value of AllLookupsFilterSet.qs
    applied,         \* filters.py: the calls of post-filter callables made by qs, in order
    result,          \* filters.py: what DjangoFilterBackend.filter_queryset returned
    Model,           \* filters.py: the model given to create_filter_class
    args,            \* filters.py: the field paths given to create_filter_class
    filter_set       \* filters.py: the class create_filter_class returned, or its error

fieldsVars == <<default_fields, all_fields, context>>
polyVars == <<subtype_serializers, obj, representation>>
csvVars == <<base_out, out>>
backendVars == <<queryset, data, filter_class, qs_returned, applied, result>>
createVars == <<Model, args, filter_set>>
vars == <<pc, fieldsVars, polyVars, csvVars, backendVars, createVars>>

(***************************************************************************)
(* Bounds of the model.                                                    *)
(***************************************************************************)
\* Segments (dot separated names) in one requested field list, all entries together.
MaxFieldSegs == 3
\* Serializers listed in Meta.subtype_serializers.
MaxSubtypes == 3
\* Pieces (a `None`, a comma, a line break, a letter) of a rendered CSV text.
MaxChunks == 4
\* Rows of the table the view's queryset reads.
NumRows == 3
\* Segments (names separated by `__`) in one list of field paths, all paths together.
MaxPathSegs == 4

(***************************************************************************)
(* Python's str operations on tuples of characters.                        *)
(***************************************************************************)
\* Whether sub occurs in s at index i (1-based).
StartsWithAt(s, sub, i) ==
    /\ i + Len(sub) - 1 <= Len(s)
    /\ \A k \in 1..Len(sub) : s[i + k - 1] = sub[k]

\* `sub in s` for strings.
Contains(s, sub) == \E i \in 1..(Len(s) + 1) : StartsWithAt(s, sub, i)

RECURSIVE SplitFrom(_, _, _, _)
SplitFrom(s, sep, i, cur) ==
    IF i > Len(s) THEN <<cur>>
    ELSE IF StartsWithAt(s, sep, i)
         THEN <<cur>> \o SplitFrom(s, sep, i + Len(sep), <<>>)
         ELSE SplitFrom(s, sep, i + 1, Append(cur, s[i]))

\* s.split(sep), sep not empty: left to right, occurrences not overlapping.
Split(s, sep) == SplitFrom(s, sep, 1, <<>>)

RECURSIVE Join(_, _)
\* sep.join(parts)
Join(parts, sep) ==
    IF Len(parts) = 0 THEN <<>>
    ELSE IF Len(parts) = 1 THEN parts[1]
    ELSE parts[1] \o sep \o Join(Tail(parts), sep)

RECURSIVE ReplaceFrom(_, _, _, _)
ReplaceFrom(s, old, new, i) ==
    IF i > Len(s) THEN <<>>
    ELSE IF StartsWithAt(s, old, i)
         THEN new \o ReplaceFrom(s, old, new, i + Len(old))
         ELSE <<s[i]>> \o ReplaceFrom(s, old, new, i + 1)

\* s.replace(old, new), old not empty: one pass, left to right.
Replace(s, old, new) == ReplaceFrom(s, old, new, 1)

\* The elements of a list, as a set.
Range(l) == {l[i] : i \in 1..Len(l)}

(***************************************************************************)
(* serializers.py                                                          *)
(***************************************************************************)
RELATED_FIELD_SEPARATOR == <<".">>
ALL_FIELDS_SPECIFIER == <<"*">>
FIELDS_DIVIDER == <<",">>

\* Python values of the kinds that `fields` can hold: None, a str, a list of str.
None == [t |-> "none", s |-> <<>>, l |-> <<>>]
Str(s) == [t |-> "str", s |-> s, l |-> <<>>]
List(l) == [t |-> "list", s |-> <<>>, l |-> l]

\* Python's truth value of such a value.
Truthy(v) ==
    CASE v.t = "none" -> FALSE
      [] v.t = "str" -> Len(v.s) > 0
      [] v.t = "list" -> Len(v.l) > 0

\* The value a related field's requested_fields holds before any request is processed.
UNSET == << <<"-">> >>

\* Serializer fields, by the attributes the code tests with hasattr:
\*   rf   the field has `requested_fields`           (its value: requested_fields)
\*   cr   the field has `child_relation`
\*   crf  the child relation has `requested_fields`  (its value: child_requested_fields)
PlainField == [rf |-> FALSE, requested_fields |-> UNSET,
               cr |-> FALSE, crf |-> FALSE, child_requested_fields |-> UNSET]
ExpandableField == [PlainField EXCEPT !.rf = TRUE]
ManyExpandableField == [PlainField EXCEPT !.cr = TRUE, !.crf = TRUE]
ManyPlainField == [PlainField EXCEPT !.cr = TRUE]

\* fields_in_request, lines 48-55.
FieldsInRequest(ctx) ==
    IF ctx.has_request
    THEN IF ctx.query_fields.t = "str" /\ Truthy(ctx.query_fields)
         THEN List(Split(ctx.query_fields.s, FIELDS_DIVIDER))
         ELSE ctx.query_fields
    ELSE None

\* Line 58 with the requested_fields of the context ignored.
ContextFieldsIgnoringRequestedFields(ctx) == FieldsInRequest(ctx)

\* self.context.get("requested_fields", fields_in_request), line 58.
ContextFields(ctx) ==
    IF ctx.has_requested_fields THEN List(ctx.requested_fields)
    ELSE FieldsInRequest(ctx)

\* relevant_fields, lines 60-66: the first segment of every entry.
RelevantFields(fields) ==
    [i \in 1..Len(fields) |-> Split(fields[i], RELATED_FIELD_SEPARATOR)[1]]

\* Lines 67-72 with the wildcard test left out.
DropUnrequestedAlways(af, fields) ==
    [k \in (DOMAIN af) \cap Range(RelevantFields(fields)) |-> af[k]]

\* Lines 67-72: without the wildcard, drop the fields that are not requested.
DropUnrequested(af, fields) ==
    IF ALL_FIELDS_SPECIFIER \notin Range(fields)
    THEN [k \in (DOMAIN af) \cap Range(RelevantFields(fields)) |-> af[k]]
    ELSE af

RECURSIVE FieldsToExpandMap(_, _)
\* fields_to_expand_map, lines 74-84, as the code builds it, one entry of
\* `fields` after the other; m is the map so far.
FieldsToExpandMap(fields, m) ==
    IF Len(fields) = 0 THEN m
    ELSE LET field_parts == Split(fields[1], RELATED_FIELD_SEPARATOR)
             key == field_parts[1]
             rest == Join(Tail(field_parts), RELATED_FIELD_SEPARATOR)
             old == IF key \in DOMAIN m THEN m[key] ELSE <<>>
         IN  IF Len(field_parts) > 1
             THEN FieldsToExpandMap(Tail(fields),
                      [k \in (DOMAIN m) \cup {key} |->
                          IF k = key THEN Append(old, rest) ELSE m[k]])
             ELSE FieldsToExpandMap(Tail(fields), m)

\* Lines 88-91 for a field that only ever sets the attribute of the field itself.
SetRequestedFieldsTopOnly(val, requested_fields) ==
    IF val.rf THEN [val EXCEPT !.requested_fields = requested_fields]
    ELSE val

\* Lines 88-91: set requested_fields on an expandable field.
SetRequestedFields(val, requested_fields) ==
    IF val.rf THEN [val EXCEPT !.requested_fields = requested_fields]
    ELSE IF val.cr /\ val.crf
         THEN [val EXCEPT !.child_requested_fields = requested_fields]
         ELSE val

\* _process_fields_based_on_context, lines 38-92.
process_fields_based_on_context(af, ctx) ==
    LET fields == ContextFields(ctx)
    IN  IF Truthy(fields)
        THEN LET kept == DropUnrequested(af, fields.l)
                 fields_to_expand_map == FieldsToExpandMap(fields.l, <<>>)
             IN  [key \in DOMAIN kept |->
                     SetRequestedFields(kept[key],
                         IF key \in DOMAIN fields_to_expand_map
                         THEN fields_to_expand_map[key] ELSE <<>>)]
        ELSE af

(***************************************************************************)
(* The inputs of the serializer.                                           *)
(***************************************************************************)
\* The names a requested entry is made of; "" is the empty segment.
FieldSegments == {<<"a">>, <<"a", "b">>, <<"*">>, <<>>}

\* The field names of the serializers.
FieldNames == {<<"a">>, <<"a", "b">>}

FieldKinds == {PlainField, ExpandableField, ManyExpandableField, ManyPlainField}

\* Every field dictionary over FieldNames.
FieldDicts == UNION {[ks -> FieldKinds] : ks \in SUBSET FieldNames}

RECURSIVE Sum(_)
Sum(zs) == IF Len(zs) = 0 THEN 0 ELSE zs[1] + Sum(Tail(zs))

\* The ways to cut k segments into consecutive non-empty groups.
Compositions(k) ==
    {zs \in UNION {[1..n -> 1..k] : n \in 0..k} : Sum(zs) = k}

RECURSIVE GroupJoin(_, _, _)
\* The list whose i-th entry joins the next sizes[i] segments of segs with sep.
GroupJoin(segs, sizes, sep) ==
    IF Len(sizes) = 0 THEN <<>>
    ELSE <<Join(SubSeq(segs, 1, sizes[1]), sep)>>
             \o GroupJoin(SubSeq(segs, sizes[1] + 1, Len(segs)), Tail(sizes), sep)

\* Every list of entries made of at most max segments of S in all.
EntryLists(S, max, sep) ==
    UNION {{GroupJoin(segs, zs, sep) : segs \in [1..k -> S], zs \in Compositions(k)}
               : k \in 0..max}

\* The requested field lists.
FieldLists == EntryLists(FieldSegments, MaxFieldSegs, RELATED_FIELD_SEPARATOR)

\* The `fields` query strings tried together with a `requested_fields` context value.
OtherQueries ==
    {None, Str(<<>>), Str(<<"a">>), Str(<<"a", "b", ".", "a", ",", "*">>)}

\* self.context: with requested_fields (with and without a request), and with
\* only a request, whose `fields` parameter is absent or a list joined by commas.
Contexts ==
    {[has_request |-> TRUE, query_fields |-> q,
      has_requested_fields |-> TRUE, requested_fields |-> l]
         : q \in OtherQueries, l \in FieldLists}
    \cup {[has_request |-> FALSE, query_fields |-> None,
           has_requested_fields |-> h, requested_fields |-> l]
         : h \in {TRUE}, l \in FieldLists}
    \cup {[has_request |-> TRUE, query_fields |-> Str(Join(l, FIELDS_DIVIDER)),
           has_requested_fields |-> FALSE, requested_fields |-> <<>>]
         : l \in FieldLists}
    \cup {[has_request |-> r, query_fields |-> None,
           has_requested_fields |-> FALSE, requested_fields |-> <<>>]
         : r \in BOOLEAN}

\* The parts of the state an operation of another class does not touch.
FieldsIdle == default_fields = <<>> /\ all_fields = <<>> /\ context = <<>>
PolyIdle == subtype_serializers = <<>> /\ obj = "" /\ representation = 0
CsvIdle == base_out = <<>> /\ out = <<>>
BackendIdle ==
    /\ queryset = <<>> /\ data = <<>> /\ filter_class = <<>>
    /\ qs_returned = <<>> /\ applied = <<>> /\ result = <<>>
CreateIdle == Model = "" /\ args = <<>> /\ filter_set = <<>>

InitFields ==
    /\ pc = "call"
    /\ PolyIdle /\ CsvIdle /\ BackendIdle /\ CreateIdle
    /\ default_fields \in FieldDicts
    /\ all_fields = default_fields
    /\ context \in Contexts

\* ModelSerializer.get_fields, lines 94-102.
get_fields ==
    /\ pc = "call"
    /\ all_fields' = process_fields_based_on_context(all_fields, context)
    /\ pc' = "return"
    /\ UNCHANGED <<default_fields, context, polyVars, csvVars, backendVars, createVars>>

NextFields == get_fields

SpecFields == InitFields /\ [][NextFields]_vars

(***************************************************************************)
(* serializers.py: PolymorphicModelSerializer                              *)
(***************************************************************************)
\* The model classes: Child extends Base, GrandChild extends Child.
ModelClasses == {"Base", "Child", "GrandChild", "Other"}

\* The classes cls inherits from, itself included.
Mro(cls) ==
    CASE cls = "GrandChild" -> {"GrandChild", "Child", "Base"}
      [] cls = "Child" -> {"Child", "Base"}
      [] OTHER -> {cls}

\* isinstance(o, model) for an object o of class cls.
IsInstance(cls, model) == model \in Mro(cls)

\* subtype_serializers_map, lines 177-179: a later serializer of the same model
\* replaces an earlier one. A serializer is named by its place in the list.
SubtypeSerializersMap(ss) ==
    [m \in Range(ss) |->
        CHOOSE i \in 1..Len(ss) : ss[i] = m /\ \A j \in (i + 1)..Len(ss) : ss[j] # m]

\* The orders in which a dict may hand out the keys ks.
KeyOrders(ks) ==
    {o \in [1..Cardinality(ks) -> ks] : \A i, j \in DOMAIN o : o[i] = o[j] => i = j}

\* Lines 180-186 for a dict that hands out its keys in the order `order`:
\* the serializer of the first key that matches, 0 for the base representation.
RepresentationBy(ss, cls, order) ==
    LET hits == {i \in DOMAIN order : IsInstance(cls, order[i])}
    IN  IF hits = {} THEN 0
        ELSE SubtypeSerializersMap(ss)[order[CHOOSE i \in hits : \A j \in hits : i <= j]]

\* The lists Meta.subtype_serializers may hold, each serializer given by its model.
SubtypeLists == UNION {[1..n -> ModelClasses] : n \in 0..MaxSubtypes}

InitPoly ==
    /\ pc = "call"
    /\ FieldsIdle /\ CsvIdle /\ BackendIdle /\ CreateIdle
    /\ subtype_serializers \in SubtypeLists
    /\ obj \in ModelClasses
    /\ representation = 0

\* PolymorphicModelSerializer.to_representation, lines 171-186. The map is a dict
\* keyed by classes, which Python 2 iterates in hash order, not in insertion order.
to_representation ==
    /\ pc = "call"
    /\ \E order \in KeyOrders(Range(subtype_serializers)) :
           representation' = RepresentationBy(subtype_serializers, obj, order)
    /\ pc' = "return"
    /\ UNCHANGED <<subtype_serializers, obj, fieldsVars, csvVars, backendVars, createVars>>

NextPoly == to_representation

SpecPoly == InitPoly /\ [][NextPoly]_vars

(***************************************************************************)
(* simple-api/renderers.py                                                 *)
(***************************************************************************)
ERRONEOUS_STR_1 == <<"N", "o", "n", "e", ",", ",">>
CORRECT_STR_1 == <<",", ",">>
ERRONEOUS_STR_2 == <<"N", "o", "n", "e", ",">>
CORRECT_STR_2 == <<",">>

\* PandasCSVRenderer.render, lines 15-23, applied to the base renderer's text.
render(text) ==
    Replace(Replace(text, ERRONEOUS_STR_1, CORRECT_STR_1),
            ERRONEOUS_STR_2, CORRECT_STR_2)

\* What a CSV text is made of: the text None, a comma, a line break, a letter.
Chunks == {<<"N", "o", "n", "e">>, <<",">>, <<"\n">>, <<"x">>}

RECURSIVE Concat(_)
Concat(ss) == IF Len(ss) = 0 THEN <<>> ELSE ss[1] \o Concat(Tail(ss))

\* The texts the base renderer may produce.
BaseTexts == {Concat(cs) : cs \in UNION {[1..n -> Chunks] : n \in 0..MaxChunks}}

InitCsv ==
    /\ pc = "call"
    /\ FieldsIdle /\ PolyIdle /\ BackendIdle /\ CreateIdle
    /\ base_out \in BaseTexts
    /\ out = <<>>

\* PandasCSVRenderer.render, lines 15-23.
Render ==
    /\ pc = "call"
    /\ out' = render(base_out)
    /\ pc' = "return"
    /\ UNCHANGED <<base_out, fieldsVars, polyVars, backendVars, createVars>>

NextCsv == Render

SpecCsv == InitCsv /\ [][NextCsv]_vars

(***************************************************************************)
(* filters.py: DjangoFilterBackend and AllLookupsFilterSet.qs              *)
(*                                                                         *)
(* A queryset is the list of the rows it yields. Row r of the table has a  *)
(* plain field `a` and related rows reached by `rel`, each with a field    *)
(* `b`; a lookup through `rel` joins, and yields a row once per related    *)
(* row that matches.                                                       *)
(***************************************************************************)
Rows == 1..NumRows
Values == {0, 1}

\* The value of field `a` of row r, and the `b` values of the rows related to it.
FieldA(r) == r % 2
RelatedB(r) == [i \in 1..r |-> IF i <= 2 THEN 1 ELSE 0]

\* queryset.filter(a=v)
FilterA(qs, v) == SelectSeq(qs, LAMBDA r : FieldA(r) = v)

RECURSIVE FilterRelB(_, _)
\* queryset.filter(rel__b=v): the join repeats a row for each related row with b = v.
FilterRelB(qs, v) ==
    IF Len(qs) = 0 THEN <<>>
    ELSE [i \in 1..Cardinality({j \in DOMAIN RelatedB(qs[1]) : RelatedB(qs[1])[j] = v})
              |-> qs[1]]
         \o FilterRelB(Tail(qs), v)

RECURSIVE Distinct(_)
\* queryset.distinct(): every row once, in the order of its first occurrence.
Distinct(qs) ==
    IF Len(qs) = 0 THEN <<>>
    ELSE LET init == Distinct(SubSeq(qs, 1, Len(qs) - 1))
             last == qs[Len(qs)]
         IN  IF last \in Range(init) THEN init ELSE Append(init, last)

\* The request parameters: the two lookups and the names of the post-filters.
LookupNames == {"a", "rel__b"}
ExtraNames == {"x", "y"}

\* The callables given to create_filter_class as kwargs: each takes the queryset
\* and the parameter's value and returns a queryset.
Callables == {"only_a", "through_rel"}

\* kwargs[extra_filter](qs, value), line 159.
Call(callable, qs, value) ==
    IF callable = "only_a" THEN FilterA(qs, value) ELSE FilterRelB(qs, value)

\* super(AllLookupsFilterSet, self).qs, line 154: the lookups of the filters that
\* the request names.
SuperQs(fc, d, qs) ==
    LET q1 == IF "a" \in fc.filters \cap DOMAIN d THEN FilterA(qs, d["a"]) ELSE qs
    IN  IF "rel__b" \in fc.filters \cap DOMAIN d THEN FilterRelB(q1, d["rel__b"]) ELSE q1

\* Line 158 as `if self.data.get(extra_filter)`: a falsy value skips the callable.
ExtraRequestedIfTruthy(extra_filter, d) ==
    extra_filter \in DOMAIN d /\ d[extra_filter] # 0

\* `extra_filter in self.data`, line 158.
ExtraRequested(extra_filter, d) == extra_filter \in DOMAIN d

RECURSIVE ApplyExtras(_, _, _, _)
\* The loop of lines 157-159 over the kwargs in the order `order`, from state
\* st = [qs, applied]; every call is recorded with the queryset it received.
ApplyExtras(order, fc, d, st) ==
    IF Len(order) = 0 THEN st
    ELSE LET extra_filter == order[1]
         IN  IF ExtraRequested(extra_filter, d)
             THEN ApplyExtras(Tail(order), fc, d,
                      [qs |-> Call(fc.kwargs[extra_filter], st.qs, d[extra_filter]),
                       applied |-> Append(st.applied,
                                          [name |-> extra_filter,
                                           value |-> d[extra_filter],
                                           qs |-> st.qs])])
             ELSE ApplyExtras(Tail(order), fc, d, st)

\* AllLookupsFilterSet.qs, lines 152-160.
Qs(fc, d, qs, order) ==
    ApplyExtras(order, fc, d, [qs |-> SuperQs(fc, d, qs), applied |-> <<>>])

\* The base backend's filter_queryset, line 44: the filter class's qs for the
\* request, the queryset itself when the view has no filter class.
SuperFilterQueryset(fc, d, qs, order) ==
    IF fc.defined THEN Qs(fc, d, qs, order)
    ELSE [qs |-> qs, applied |-> <<>>]

\* Line 45 without the call of distinct.
BackendResultNotDistinct(qs) == qs

\* Line 45: qs.distinct()
BackendResult(qs) == Distinct(qs)

\* The view's querysets: the rows of the table, or some of them, in table order.
RECURSIVE RowsIn(_, _)
RowsIn(S, r) ==
    IF r > NumRows THEN <<>>
    ELSE (IF r \in S THEN <<r>> ELSE <<>>) \o RowsIn(S, r + 1)

QuerySets == {RowsIn(S, 1) : S \in SUBSET Rows}

\* The filter classes: the filter names of the filter set and the kwargs, or none.
FilterClasses ==
    {[defined |-> TRUE, filters |-> fs, kwargs |-> kw]
         : fs \in SUBSET LookupNames,
           kw \in UNION {[ns -> Callables] : ns \in SUBSET ExtraNames}}
    \cup {[defined |-> FALSE, filters |-> {}, kwargs |-> <<>>]}

Requests == UNION {[ns -> Values] : ns \in SUBSET (LookupNames \cup ExtraNames)}

InitBackend ==
    /\ pc = "call"
    /\ FieldsIdle /\ PolyIdle /\ CsvIdle /\ CreateIdle
    /\ queryset \in QuerySets
    /\ data \in Requests
    /\ filter_class \in FilterClasses
    /\ qs_returned = <<>>
    /\ applied = <<>>
    /\ result = <<>>

\* DjangoFilterBackend.filter_queryset, lines 39-45. kwargs is a dict, iterated in
\* hash order.
filter_queryset ==
    /\ pc = "call"
    /\ \E order \in KeyOrders(DOMAIN filter_class.kwargs) :
           LET r == SuperFilterQueryset(filter_class, data, queryset, order)
           IN  /\ qs_returned' = r.qs
               /\ applied' = r.applied
               /\ result' = BackendResult(r.qs)
    /\ pc' = "return"
    /\ UNCHANGED <<queryset, data, filter_class, fieldsVars, polyVars, csvVars, createVars>>

NextBackend == filter_queryset

SpecBackend == InitBackend /\ [][NextBackend]_vars

(***************************************************************************)
(* filters.py: create_filter_class                                         *)
(*                                                                         *)
(* The field info of the models (model_meta.get_field_info): M and N each  *)
(* have a plain field `a` and a relation `r` to the other, and N has a     *)
(* plain field `x` that M lacks. NoModel is Python's None, which           *)
(* _get_related_model returns for a name that is no relation, and whose    *)
(* field info cannot be read: get_field_info(None) raises.                 *)
(***************************************************************************)
RELATED_FIELD_SEP == <<"_", "_">>

NoModel == "None"
ModelNames == {"M", "N"}

\* info.fields_and_pk and info.relations of a model.
FieldsAndPk(m) ==
    CASE m = "M" -> {<<"a">>}
      [] m = "N" -> {<<"a">>, <<"x">>}
Relations(m) ==
    CASE m = "M" -> [f \in {<<"r">>} |-> "N"]
      [] m = "N" -> [f \in {<<"r">>} |-> "M"]

\* _get_related_model, lines 57-62, for a model that is not None.
get_related_model(m, field_name) ==
    IF field_name \in DOMAIN Relations(m) THEN Relations(m)[field_name] ELSE NoModel

\* _get_model_field, lines 65-67, as the truth value validate_field tests.
get_model_field(m, field_name) ==
    field_name \in FieldsAndPk(m) \cup DOMAIN Relations(m)

\* Lines 95-99 left out: the base field name is not added to args.
WithoutBaseName(as, fname) == as

\* Lines 95-99: the base field name is added to args when it is not there.
WithBaseName(as, fname) ==
    IF fname \notin Range(as) THEN Append(as, fname) ELSE as

RECURSIVE CollectRelated(_, _, _, _)
\* The loop of lines 89-102 from its i-th step; the list grows while it is iterated,
\* and the names appended are iterated too. rf is related_fields so far.
CollectRelated(m, as, rf, i) ==
    IF i > Len(as) THEN [raised |-> FALSE, args |-> as, related_fields |-> rf]
    ELSE LET f == as[i]
         IN  IF ~Contains(f, RELATED_FIELD_SEP) /\ m = NoModel
             THEN [raised |-> TRUE, args |-> as, related_fields |-> rf]
             ELSE IF Contains(f, RELATED_FIELD_SEP) \/ get_related_model(m, f) # NoModel
             THEN LET parts == Split(f, RELATED_FIELD_SEP)
                      fname == parts[1]
                      rf1 == IF fname \notin DOMAIN rf
                             THEN [k \in DOMAIN rf \cup {fname} |->
                                      IF k = fname THEN <<>> ELSE rf[k]]
                             ELSE rf
                      rest == Join(Tail(parts), RELATED_FIELD_SEP)
                      rf2 == IF rest # <<>>
                             THEN [rf1 EXCEPT ![fname] = Append(@, rest)]
                             ELSE rf1
                  IN  CollectRelated(m, WithBaseName(as, fname), rf2, i + 1)
             ELSE CollectRelated(m, as, rf, i + 1)

\* Lines 126-129 with the two filters exchanged.
FilterForExchanged(f, related_classes) ==
    IF f \in DOMAIN related_classes THEN "AllLookupsFilter" ELSE "RelatedFilter"

\* Lines 126-129: a RelatedFilter for a name with a related class, an
\* AllLookupsFilter for any other.
FilterFor(f, related_classes) ==
    IF f \in DOMAIN related_classes THEN "RelatedFilter" ELSE "AllLookupsFilter"

RECURSIVE BuildAttrs(_, _, _, _, _)
\* The loop of lines 121-130 from its i-th step, validate_field (lines 109-113)
\* included. st = [raised, class_attrs, fields_on_model].
BuildAttrs(m, as, related_classes, i, st) ==
    IF i > Len(as) THEN st
    ELSE LET f == as[i]
         IN  IF Contains(f, RELATED_FIELD_SEP)
             THEN BuildAttrs(m, as, related_classes, i + 1, st)
             ELSE IF m = NoModel \/ ~get_model_field(m, f)
             THEN [st EXCEPT !.raised = TRUE]
             ELSE BuildAttrs(m, as, related_classes, i + 1,
                      [raised |-> FALSE,
                       class_attrs |->
                           [k \in DOMAIN st.class_attrs \cup {f} |->
                               IF k = f THEN FilterFor(f, related_classes)
                               ELSE st.class_attrs[k]],
                       fields_on_model |-> Append(st.fields_on_model, f)])

\* What create_filter_class gives when an exception leaves it.
Raised(m) ==
    [raised |-> TRUE, model |-> m, fields |-> <<>>,
     class_attrs |-> <<>>, related_classes |-> <<>>]

RECURSIVE create_filter_class(_, _)
\* create_filter_class, lines 70-172, without its kwargs: the filter set class, by
\* its Meta.model, its Meta.fields, the filter of each class attribute and the
\* filter set of each RelatedFilter. Building and instantiating the class (lines
\* 132-170) is the filter library's and is taken to succeed.
create_filter_class(m, as) ==
    LET collected == CollectRelated(m, as, <<>>, 1)
        related_fields == collected.related_fields
        related_classes ==
            [f \in DOMAIN related_fields |->
                create_filter_class(get_related_model(m, f), related_fields[f])]
        built == BuildAttrs(m, collected.args, related_classes, 1,
                     [raised |-> FALSE, class_attrs |-> <<>>, fields_on_model |-> <<>>])
    IN  IF collected.raised THEN Raised(m)
        ELSE IF \E f \in DOMAIN related_fields :
                    m = NoModel \/ related_classes[f].raised
        THEN Raised(m)
        ELSE IF built.raised THEN Raised(m)
        ELSE [raised |-> FALSE, model |-> m, fields |-> built.fields_on_model,
              class_attrs |-> built.class_attrs, related_classes |-> related_classes]

\* The names a field path is made of; "" is the empty segment.
PathSegments == {<<"a">>, <<"r">>, <<"x">>, <<>>}

\* The lists of field paths.
PathLists == EntryLists(PathSegments, MaxPathSegs, RELATED_FIELD_SEP)

InitCreate ==
    /\ pc = "call"
    /\ FieldsIdle /\ PolyIdle /\ CsvIdle /\ BackendIdle
    /\ Model \in ModelNames
    /\ args \in PathLists
    /\ filter_set = <<>>

\* A call of create_filter_class(Model, *args).
CreateFilterClass ==
    /\ pc = "call"
    /\ filter_set' = create_filter_class(Model, args)
    /\ pc' = "return"
    /\ UNCHANGED <<Model, args, fieldsVars, polyVars, csvVars, backendVars>>

NextCreate == CreateFilterClass

SpecCreate == InitCreate /\ [][NextCreate]_vars

(***************************************************************************)
(* The field selection, stated without the code's split and join.          *)
(***************************************************************************)
\* The index of the first "." of entry e, 0 when it has none.
FirstDot(e) ==
    IF \E i \in 1..Len(e) : e[i] = "."
    THEN CHOOSE i \in 1..Len(e) : e[i] = "." /\ \A j \in 1..(i - 1) : e[j] # "."
    ELSE 0

\* The first dot-separated segment of e, and what follows its first dot.
FirstSegment(e) == IF FirstDot(e) = 0 THEN e ELSE SubSeq(e, 1, FirstDot(e) - 1)
Remainder(e) == SubSeq(e, FirstDot(e) + 1, Len(e))

RECURSIVE RemaindersFor(_, _)
\* In request order, the remainders of the entries of req whose first segment is key.
RemaindersFor(req, key) ==
    IF Len(req) = 0 THEN <<>>
    ELSE (IF FirstDot(req[1]) # 0 /\ FirstSegment(req[1]) = key
          THEN <<Remainder(req[1])>> ELSE <<>>)
         \o RemaindersFor(Tail(req), key)

\* The keys of dictionary d that are the first segment of some entry of req.
RequestedKeys(d, req) ==
    {k \in DOMAIN d : \E i \in 1..Len(req) : FirstSegment(req[i]) = k}

\* Field new is field old with its requested_fields, or its child relation's, set to
\* rs, and nothing else changed.
Propagated(old, new, rs) ==
    new = IF old.rf THEN [old EXCEPT !.requested_fields = rs]
          ELSE IF old.cr /\ old.crf THEN [old EXCEPT !.child_requested_fields = rs]
          ELSE old

\* The requested field list in effect: the context's requested_fields, or else the
\* comma separated `fields` parameter of the request.
RequestedList(ctx) ==
    IF ctx.has_requested_fields THEN ctx.requested_fields
    ELSE IF ctx.has_request /\ ctx.query_fields.t = "str" /\ ctx.query_fields.s # <<>>
         THEN Split(ctx.query_fields.s, <<",">>)
         ELSE <<>>

C2_WildcardKeepsAll ==
    (pc = "return" /\ <<"*">> \in Range(RequestedList(context))) =>
        DOMAIN all_fields = DOMAIN default_fields

\* fields=ab.a,* : `a` is not requested by name and is kept.
C2_Witness ==
    /\ pc = "return"
    /\ RequestedList(context) = << <<"a", "b", ".", "a">>, <<"*">> >>
    /\ DOMAIN default_fields = FieldNames
    /\ DOMAIN all_fields = FieldNames

\* C10: with a requested_fields key in the context, the result is the selection and
\* the propagation for that value alone, whatever the request's `fields` parameter;
\* for the empty list the default dictionary is returned as it was.
C10_RequestedFieldsTakePrecedence ==
    (pc = "return" /\ context.has_requested_fields) =>
        LET req == context.requested_fields
        IN  IF req = <<>> THEN all_fields = default_fields
            ELSE /\ DOMAIN all_fields =
                        IF <<"*">> \in Range(req) THEN DOMAIN default_fields
                        ELSE RequestedKeys(default_fields, req)
                 /\ \A k \in DOMAIN all_fields :
                        Propagated(default_fields[k], all_fields[k],
                                   RemaindersFor(req, k))

\* requested_fields = [] with fields=a in the request: nothing is removed.
C10_Witness ==
    /\ pc = "return"
    /\ context.has_requested_fields
    /\ context.requested_fields = <<>>
    /\ context.has_request
    /\ context.query_fields = Str(<<"a">>)
    /\ DOMAIN default_fields = FieldNames
    /\ all_fields = default_fields

\* Whether a line of text begins at index i.
LineStart(text, i) == i = 1 \/ (i > 1 /\ text[i - 1] = "\n")

\* C3: no line of the text render returns, the first included, begins with `None,`.
C3_NoLeadingNone ==
    pc = "return" =>
        \A i \in 1..Len(out) :
            LineStart(out, i) => ~StartsWithAt(out, <<"N", "o", "n", "e", ",">>, i)

\* The serializer that comes first in the declared order among those whose model
\* the object is an instance of; 0 (the base representation) when there is none.
FirstDeclaredMatch(ss, cls) ==
    LET hits == {i \in 1..Len(ss) : IsInstance(cls, ss[i])}
    IN  IF hits = {} THEN 0 ELSE CHOOSE i \in hits : \A j \in hits : i <= j

\* C7: to_representation returns the representation of the first serializer, in
\* the declared order, whose model the object is an instance of, and the base
\* representation when there is none.
C7_FirstDeclaredSerializer ==
    pc = "return" => representation = FirstDeclaredMatch(subtype_serializers, obj)

\* C4: the result of filter_queryset holds every row at most once: it is the
\* filter set's queryset, after the lookups and every post-filter, made distinct.
C4_NoDuplicateRows ==
    pc = "return" =>
        /\ \A i, j \in DOMAIN result : result[i] = result[j] => i = j
        /\ Range(result) = Range(qs_returned)

\* A lookup through the relation and a post-filter ran, the filter set's queryset
\* holds a row twice and the result holds it once.
C4_Witness ==
    /\ pc = "return"
    /\ filter_class.defined
    /\ "rel__b" \in filter_class.filters \cap DOMAIN data
    /\ Len(applied) > 0
    /\ \E i, j \in DOMAIN qs_returned : i # j /\ qs_returned[i] = qs_returned[j]
    /\ Len(result) > 0
    /\ Len(result) < Len(qs_returned)

\* C9: qs calls a post-filter callable exactly once, with the value of its request
\* parameter, if its name is a key of the request data, and never otherwise; the
\* first call receives the queryset of the lookups and each later call the
\* queryset the call before it returned, and qs returns what the last call returned.
C9_PostFiltersByPresence ==
    (pc = "return" /\ filter_class.defined) =>
        LET kwargs == filter_class.kwargs
            Returned(i) == Call(kwargs[applied[i].name], applied[i].qs, applied[i].value)
            lookups == SuperQs(filter_class, data, queryset)
        IN  /\ \A name \in DOMAIN kwargs :
                   Cardinality({i \in DOMAIN applied : applied[i].name = name})
                       = IF name \in DOMAIN data THEN 1 ELSE 0
            /\ \A i \in DOMAIN applied :
                   /\ applied[i].name \in DOMAIN kwargs
                   /\ applied[i].value = data[applied[i].name]
                   /\ applied[i].qs = IF i = 1 THEN lookups ELSE Returned(i - 1)
            /\ qs_returned = IF applied = <<>> THEN lookups ELSE Returned(Len(applied))

\* Both post-filters are named by the request, one with the value 0, and both ran.
C9_Witness ==
    /\ pc = "return"
    /\ filter_class.defined
    /\ DOMAIN filter_class.kwargs = {"x", "y"}
    /\ DOMAIN data = {"a", "x", "y"}
    /\ data["x"] = 0
    /\ Len(applied) = 2
    /\ Len(qs_returned) > 0

(***************************************************************************)
(* The field paths of create_filter_class, resolved against the models.    *)
(***************************************************************************)
\* The segments of a field path.
Segments(path) == Split(path, <<"_", "_">>)

\* The field names of model m, plain fields and relations.
FieldNamesOf(m) == FieldsAndPk(m) \cup DOMAIN Relations(m)

RECURSIVE SegmentUnknown(_, _)
\* Whether some segment of segs names no field of the model it is resolved against:
\* the first against m, the next against the model the one before relates to, and
\* against no model after a name that is no relation.
SegmentUnknown(m, segs) ==
    IF Len(segs) = 0 THEN FALSE
    ELSE IF m = NoModel THEN TRUE
    ELSE IF segs[1] \notin FieldNamesOf(m) THEN TRUE
    ELSE SegmentUnknown(IF segs[1] \in DOMAIN Relations(m)
                        THEN Relations(m)[segs[1]] ELSE NoModel,
                        Tail(segs))

\* A valid list of field paths: every segment of every path names a field.
ValidArgs == \A i \in DOMAIN args : ~SegmentUnknown(Model, Segments(args[i]))

RECURSIVE ModelAt(_, _)
\* The model the relations segs lead to from m.
ModelAt(m, segs) ==
    IF Len(segs) = 0 THEN m ELSE ModelAt(Relations(m)[segs[1]], Tail(segs))

RECURSIVE ClassAt(_, _)
\* The filter set the related filters segs lead to from filter set cls.
ClassAt(cls, segs) ==
    IF Len(segs) = 0 THEN cls ELSE ClassAt(cls.related_classes[segs[1]], Tail(segs))

Front(segs) == SubSeq(segs, 1, Len(segs) - 1)
Last(segs) == segs[Len(segs)]

\* C5: when some segment of some path names a field that does not exist on the
\* model it is resolved against, create_filter_class raises and returns no class.
C5_UnknownFieldRaises ==
    (pc = "return" /\ \E i \in DOMAIN args : SegmentUnknown(Model, Segments(args[i])))
        => filter_set.raised

RECURSIVE AcceptedPaths(_)
\* The paths, as lists of segments, that filter set cls accepts: its own filters, and
\* behind each related filter the paths its filter set accepts.
AcceptedPaths(cls) ==
    {<<f>> : f \in DOMAIN cls.class_attrs}
    \cup UNION {{<<f>> \o p : p \in AcceptedPaths(cls.related_classes[f])}
                   : f \in {g \in DOMAIN cls.class_attrs :
                               cls.class_attrs[g] = "RelatedFilter"}}

\* The non-empty prefixes of a list of segments.
Prefixes(segs) == {SubSeq(segs, 1, n) : n \in 1..Len(segs)}

\* C8: for a valid list, the first segment of every path with `__` is among the
\* filterable fields of the model, listed or not, with a related filter whose filter
\* set is built for the related model from the remainders of the paths that share
\* the segment; the paths accepted are the requested paths and their prefixes.
C8_RelatedFiltersFromRemainders ==
    (pc = "return" /\ ValidArgs) =>
        /\ ~filter_set.raised
        /\ AcceptedPaths(filter_set)
               = UNION {Prefixes(Segments(args[i])) : i \in DOMAIN args}
        /\ \A i \in DOMAIN args :
               LET segs == Segments(args[i])
                   first == segs[1]
                   sharing == {j \in DOMAIN args :
                                  /\ Len(Segments(args[j])) > 1
                                  /\ Segments(args[j])[1] = first}
               IN  Len(segs) > 1 =>
                       /\ first \in Range(filter_set.fields)
                       /\ filter_set.class_attrs[first] = "RelatedFilter"
                       /\ filter_set.related_classes[first].model
                              = Relations(Model)[first]
                       /\ AcceptedPaths(filter_set.related_classes[first])
                              = UNION {Prefixes(Tail(Segments(args[j]))) : j \in sharing}

\* r__a and r__x on M, `r` not listed: `r` is filterable, and its filter set, built
\* for N, accepts `a` and `x`.
C8_Witness ==
    /\ pc = "return"
    /\ Model = "M"
    /\ args = << <<"r", "_", "_", "a">>, <<"r", "_", "_", "x">> >>
    /\ ~filter_set.raised
    /\ filter_set.fields = << <<"r">> >>
    /\ filter_set.related_classes[<<"r">>].model = "N"
    /\ DOMAIN filter_set.related_classes[<<"r">>].class_attrs = {<<"a">>, <<"x">>}

====
